---- MODULE Spec2Model ----
(***************************************************************************)
(* Model of the driver storage of kdrake/nearestdots (package storage).    *)
(*                                                                         *)
(* The store keeps a map id -> *Driver and an R-tree of *Driver values     *)
(* (rtreego).  Drivers are Go pointers, so the model keeps a heap of       *)
(* Driver objects (objs) and the map and the tree hold references into it. *)
(* Every public method runs its whole body under s.mu, so each method is   *)
(* one atomic action.  Coordinates are in units of 0.01 degree.            *)
(* SpecLock has the callers take and release s.mu around each body.        *)
(***************************************************************************)
EXTENDS Integers, Sequences, FiniteSets, TLC

\* ------------------------------------------------------------------ bounds
PerId == 3        \* Driver values with the same ID alive at one time
MaxTime == 2      \* the clock runs 1..MaxTime
MaxLru == 1       \* lruSize given to New is 0 or MaxLru
NumCallers == 2   \* goroutines calling the store at the same time

DriverIds == {1, 2}
Positions == {<<0, 0>>, <<4, 3>>}
QueryPoints == {<<0, 0>>, <<4, 4>>}
Refs == 1..(2 * PerId)
Expirations == {0, 1}    \* 0: never expires
Counts == {0, 1, 2}      \* count given to Nearest
Callers == 1..NumCallers
Ops == {"set", "delete", "get", "nearest", "sweep"}

\* Point.ToRect(0.01): the tolerance, in units of 0.01 degree
Tol == 1

VARIABLES
  objs,       \* heap: Ref -> Driver{ID, LastLocation, Expiration, Locations}
  drivers,    \* s.drivers: map[int]*Driver
  locations,  \* s.locations: the R-tree's entries, in insertion order
  lruSize,    \* s.lruSize
  now,        \* time.Now().UnixNano()
  upserted,   \* per id, the positions of the completed Sets since its creation
  last,       \* the last call and what it returned
  mu,         \* s.mu: the holder of the write lock and the holders of read locks
  pc          \* per caller, the method it is in and where in it

vars == <<objs, drivers, locations, lruSize, now, upserted, last, mu, pc>>

\* ------------------------------------------------------------ lru package
\* A nil *lru.LRU
NilCache == [serial |-> 0, cap |-> 0, items |-> <<>>]

\* lru.New(size): an error for a non-positive size
LruNewFails(size) == size <= 0

\* serial tells one cache from another: the Driver it was allocated for
LruNew(size, serial) == [serial |-> serial, cap |-> size, items |-> <<>>]

\* Add that never evicts
LruAddUnbounded(c, key, value) == [c EXCEPT !.items = Append(c.items, value)]

\* (*LRU).Add(key, value): newest last, the oldest evicted over capacity.
\* The key (the clock reading) takes no part in the order or the eviction;
\* the model keeps the values.
LruAdd(c, key, value) ==
  LET s == Append(c.items, value)
  IN [c EXCEPT !.items = IF Len(s) > c.cap THEN Tail(s) ELSE s]

\* ---------------------------------------------------------------- Driver
\* A Driver value as a caller builds it: &Driver{ID, LastLocation, Expiration}
NewDriver(id, loc, exp) ==
  [ID |-> id, LastLocation |-> loc, Expiration |-> exp, Locations |-> NilCache]

NoDriver == NewDriver(0, <<0, 0>>, 0)

\* Expired without the test for Expiration == 0
ExpiredNoSentinel(d, t) == t > d.Expiration

\* (*Driver).Expired at clock reading t
Expired(d, t) == IF d.Expiration = 0 THEN FALSE ELSE t > d.Expiration

\* (*Driver).Bounds: the box of side 2*Tol centred on LastLocation
Bounds(d) ==
  [lo |-> <<d.LastLocation[1] - Tol, d.LastLocation[2] - Tol>>,
   hi |-> <<d.LastLocation[1] + Tol, d.LastLocation[2] + Tol>>]

\* ------------------------------------------------------------ rtreego tree
\* Rtree.Insert(obj): the entry keeps the box computed at insertion
RtreeInsert(tree, hp, o) == Append(tree, [obj |-> o, bb |-> Bounds(hp[o])])

\* Rtree.Delete(obj) finds the entry by identity (obj1 == obj2 on pointers)
RtreeHas(tree, o) == \E i \in 1..Len(tree) : tree[i].obj = o

\* The entry removed is the last one holding obj; the others keep their order
RtreeDelete(tree, o) ==
  LET ind == CHOOSE i \in 1..Len(tree) :
               tree[i].obj = o /\ \A j \in (i + 1)..Len(tree) : tree[j].obj # o
  IN [i \in 1..(Len(tree) - 1) |-> IF i < ind THEN tree[i] ELSE tree[i + 1]]

Gap(lo, p, hi) == IF p < lo THEN lo - p ELSE IF p > hi THEN p - hi ELSE 0

\* Point.minDist(rect): squared planar distance from the point to the box
MinDist(pt, bb) ==
  Gap(bb.lo[1], pt[1], bb.hi[1]) * Gap(bb.lo[1], pt[1], bb.hi[1])
  + Gap(bb.lo[2], pt[2], bb.hi[2]) * Gap(bb.lo[2], pt[2], bb.hi[2])

\* Entry i comes before entry j in the result of a nearest-neighbour search:
\* nearer first, equal distances in traversal order
Before(tree, pt, i, j) ==
  \/ MinDist(pt, tree[i].bb) < MinDist(pt, tree[j].bb)
  \/ MinDist(pt, tree[i].bb) = MinDist(pt, tree[j].bb) /\ i < j

Rank(tree, pt, i) == Cardinality({j \in 1..Len(tree) : Before(tree, pt, j, i)}) + 1

\* Rtree.NearestNeighbors(k, p): the k nearest objects, nearest first
NearestNeighbors(tree, k, pt) ==
  LET n == IF k < Len(tree) THEN k ELSE Len(tree)
  IN [r \in 1..n |-> tree[CHOOSE i \in 1..Len(tree) : Rank(tree, pt, i) = r].obj]

\* ------------------------------------------------------------ DriverStorage
MapSet(m, k, v) == [x \in DOMAIN m \cup {k} |-> IF x = k THEN v ELSE m[x]]

MapDelete(m, k) == [x \in DOMAIN m \ {k} |-> m[x]]

EmptyMap == [x \in {} |-> 0]

\* The assignment of line 77 written the other way round
AssignLastLocationReversed(hp, d, driver) ==
  [hp EXCEPT ![driver].LastLocation = hp[d].LastLocation]

\* Set, line 77: d.LastLocation = driver.LastLocation
AssignLastLocation(hp, d, driver) ==
  [hp EXCEPT ![d].LastLocation = hp[driver].LastLocation]

\* Set, line 79: d.Expiration = driver.Expiration
AssignExpiration(hp, d, driver) ==
  [hp EXCEPT ![d].Expiration = hp[driver].Expiration]

\* Set, line 81: s.drivers[driver.ID] = driver
StoreDriver(drv, hp, d, driver) == MapSet(drv, hp[driver].ID, driver)

\* Set that inserts the Driver into the tree on every call, not only when
\* the id is new
SetAlwaysInserts(hp, drv, tree, size, t, driver) ==
  LET id == hp[driver].ID
      ok == id \in DOMAIN drv
  IN IF ~ok /\ LruNewFails(size)
     THEN [objs |-> hp, drivers |-> drv, locations |-> tree, err |-> "lru"]
     ELSE
       LET d == IF ok THEN drv[id] ELSE driver
           h1 == IF ok THEN hp
                 ELSE [hp EXCEPT ![d].Locations = LruNew(size, d)]
           t1 == RtreeInsert(tree, h1, d)
           h2 == AssignLastLocation(h1, d, driver)
       IN IF h2[d].Locations = NilCache
          THEN [objs |-> h2, drivers |-> drv, locations |-> t1, err |-> "panic"]
          ELSE
            LET h3 == [h2 EXCEPT ![d].Locations =
                                   LruAdd(@, t, h2[d].LastLocation)]
                h4 == AssignExpiration(h3, d, driver)
            IN [objs |-> h4, drivers |-> StoreDriver(drv, h4, d, driver),
                locations |-> t1, err |-> "nil"]

\* Set that inserts the new Driver into the tree before it creates the cache
SetInsertsBeforeCache(hp, drv, tree, size, t, driver) ==
  LET id == hp[driver].ID
      ok == id \in DOMAIN drv
  IN IF ~ok /\ LruNewFails(size)
     THEN [objs |-> hp, drivers |-> drv,
           locations |-> RtreeInsert(tree, hp, driver), err |-> "lru"]
     ELSE
       LET d == IF ok THEN drv[id] ELSE driver
           h1 == IF ok THEN hp
                 ELSE [hp EXCEPT ![d].Locations = LruNew(size, d)]
           t1 == IF ok THEN tree ELSE RtreeInsert(tree, h1, d)
           h2 == AssignLastLocation(h1, d, driver)
       IN IF h2[d].Locations = NilCache
          THEN [objs |-> h2, drivers |-> drv, locations |-> t1, err |-> "panic"]
          ELSE
            LET h3 == [h2 EXCEPT ![d].Locations =
                                   LruAdd(@, t, h2[d].LastLocation)]
                h4 == AssignExpiration(h3, d, driver)
            IN [objs |-> h4, drivers |-> StoreDriver(drv, h4, d, driver),
                locations |-> t1, err |-> "nil"]

\* Set(driver) at clock reading t.  A nil d.Locations makes line 78 panic
\* (a method of a nil *lru.LRU reading its fields); the deferred Unlock runs
\* and the writes made before line 78 stay.
SetResult(hp, drv, tree, size, t, driver) ==
  LET id == hp[driver].ID
      ok == id \in DOMAIN drv
  IN IF ~ok /\ LruNewFails(size)
     THEN [objs |-> hp, drivers |-> drv, locations |-> tree, err |-> "lru"]
     ELSE
       LET d == IF ok THEN drv[id] ELSE driver
           h1 == IF ok THEN hp
                 ELSE [hp EXCEPT ![d].Locations = LruNew(size, d)]
           t1 == IF ok THEN tree ELSE RtreeInsert(tree, h1, d)
           h2 == AssignLastLocation(h1, d, driver)
       IN IF h2[d].Locations = NilCache
          THEN [objs |-> h2, drivers |-> drv, locations |-> t1, err |-> "panic"]
          ELSE
            LET h3 == [h2 EXCEPT ![d].Locations =
                                   LruAdd(@, t, h2[d].LastLocation)]
                h4 == AssignExpiration(h3, d, driver)
            IN [objs |-> h4, drivers |-> StoreDriver(drv, h4, d, driver),
                locations |-> t1, err |-> "nil"]

\* Delete that removes the map entry whatever the tree answers
DeleteIgnoringIndex(hp, drv, tree, id) ==
  IF id \notin DOMAIN drv
  THEN [drivers |-> drv, locations |-> tree, err |-> "notfound"]
  ELSE
    LET driver == drv[id]
    IN IF RtreeHas(tree, driver)
       THEN [drivers |-> MapDelete(drv, hp[driver].ID),
             locations |-> RtreeDelete(tree, driver), err |-> "nil"]
       ELSE [drivers |-> MapDelete(drv, hp[driver].ID), locations |-> tree,
             err |-> "nil"]

\* Delete that leaves the map entry in place
DeleteKeepsMapEntry(hp, drv, tree, id) ==
  IF id \notin DOMAIN drv
  THEN [drivers |-> drv, locations |-> tree, err |-> "notfound"]
  ELSE
    LET driver == drv[id]
    IN IF RtreeHas(tree, driver)
       THEN [drivers |-> drv, locations |-> RtreeDelete(tree, driver),
             err |-> "nil"]
       ELSE [drivers |-> drv, locations |-> tree, err |-> "couldnotremove"]

\* Delete that reports no error for an id the map does not hold
DeleteAbsentSilently(hp, drv, tree, id) ==
  IF id \notin DOMAIN drv
  THEN [drivers |-> drv, locations |-> tree, err |-> "nil"]
  ELSE
    LET driver == drv[id]
    IN IF RtreeHas(tree, driver)
       THEN [drivers |-> MapDelete(drv, hp[driver].ID),
             locations |-> RtreeDelete(tree, driver), err |-> "nil"]
       ELSE [drivers |-> drv, locations |-> tree, err |-> "couldnotremove"]

\* Delete(id)
DeleteResult(hp, drv, tree, id) ==
  IF id \notin DOMAIN drv
  THEN [drivers |-> drv, locations |-> tree, err |-> "notfound"]
  ELSE
    LET driver == drv[id]
    IN IF RtreeHas(tree, driver)
       THEN [drivers |-> MapDelete(drv, hp[driver].ID),
             locations |-> RtreeDelete(tree, driver), err |-> "nil"]
       ELSE [drivers |-> drv, locations |-> tree, err |-> "couldnotremove"]

\* Get(id)
GetResult(drv, id) ==
  IF id \notin DOMAIN drv
  THEN [err |-> "notfound", res |-> <<>>]
  ELSE [err |-> "nil", res |-> <<drv[id]>>]

\* Nearest that asks the tree for every entry, whatever count is
NearestIgnoringCount(tree, pt, count) == NearestNeighbors(tree, Len(tree), pt)

\* Nearest(point, count): the non-nil results of NearestNeighbors
Nearest(tree, pt, count) == NearestNeighbors(tree, count, pt)

\* DeleteExpired: the loop over s.drivers; at[k] is the clock reading when
\* the loop tests the driver under key k
RECURSIVE DeleteExpiredLoop(_, _, _, _, _)
DeleteExpiredLoop(keys, hp, drv, tree, at) ==
  IF keys = {}
  THEN [drivers |-> drv, locations |-> tree]
  ELSE
    LET k == CHOOSE x \in keys : TRUE
        rest == keys \ {k}
    IN IF k \in DOMAIN drv /\ Expired(hp[drv[k]], at[k])
          /\ RtreeHas(tree, drv[k])
       THEN DeleteExpiredLoop(rest, hp, MapDelete(drv, hp[drv[k]].ID),
                              RtreeDelete(tree, drv[k]), at)
       ELSE DeleteExpiredLoop(rest, hp, drv, tree, at)

\* ----------------------------------------------------------------- state
Call(op, id, err) ==
  [op |-> op, id |-> id, err |-> err, res |-> <<>>, pt |-> <<0, 0>>, exp |-> 0,
   t |-> 0]

\* The addresses a Driver value with this ID is allocated at
Pool(id) == {(id - 1) * PerId + j : j \in 1..PerId}

\* The Driver values the store holds
Live(drv, tree) ==
  {drv[k] : k \in DOMAIN drv} \cup {tree[i].obj : i \in 1..Len(tree)}

\* A Driver value that neither the map nor the tree holds is garbage
Collect(hp, drv, tree) ==
  [o \in Refs |-> IF o \in Live(drv, tree) THEN hp[o] ELSE NoDriver]

\* The positions of the completed Sets of each id still in the map, the
\* newest last, no more than lruSize + 1 of them
Keep(s, n) == IF Len(s) > n THEN SubSeq(s, Len(s) - n + 1, Len(s)) ELSE s

Forget(ups, drv) == [i \in DriverIds |-> IF i \in DOMAIN drv THEN ups[i] ELSE <<>>]

\* What a step writes down: the call and its result (h = FALSE), or the
\* positions upserted (h = TRUE)
Record(h, call, ups) ==
  IF h THEN upserted' = ups /\ UNCHANGED last
       ELSE last' = call /\ UNCHANGED upserted

Init ==
  /\ objs = [o \in Refs |-> NoDriver]
  /\ drivers = EmptyMap
  /\ locations = <<>>
  /\ lruSize \in {0, MaxLru}
  /\ now = 1
  /\ upserted = [i \in DriverIds |-> <<>>]
  /\ last = Call("new", 0, "nil")
  /\ mu = [w |-> 0, readers |-> {}]
  /\ pc = [c \in Callers |-> [at |-> "idle", op |-> "none"]]

\* s.Set(driver) on the heap hp, in which the caller has written the value
DoSet(h, hp, driver) ==
  LET id == hp[driver].ID
      r == SetResult(hp, drivers, locations, lruSize, now, driver)
  IN /\ objs' = Collect(r.objs, r.drivers, r.locations)
     /\ drivers' = r.drivers
     /\ locations' = r.locations
     /\ Record(h, [Call("set", id, r.err) EXCEPT
                     !.pt = hp[driver].LastLocation,
                     !.exp = hp[driver].Expiration],
               IF r.err # "nil" THEN upserted
               ELSE [upserted EXCEPT ![id] =
                       IF id \in DOMAIN drivers
                       THEN Keep(Append(@, hp[driver].LastLocation), lruSize + 1)
                       ELSE <<hp[driver].LastLocation>>])
     /\ UNCHANGED <<lruSize, now>>

\* A caller builds a new Driver value and passes it to Set
SetFresh(h, id, loc, exp) ==
  /\ Pool(id) \ Live(drivers, locations) # {}
  /\ LET o == CHOOSE x \in Pool(id) \ Live(drivers, locations) :
                \A y \in Pool(id) \ Live(drivers, locations) : x <= y
     IN DoSet(h, [objs EXCEPT ![o] = NewDriver(id, loc, exp)], o)

\* A caller writes a new position and expiration into the Driver value the
\* map holds (the one it passed to Set, which is the one Get returns) and
\* passes it to Set again
SetAgain(h, o, loc, exp) ==
  /\ o \in {drivers[k] : k \in DOMAIN drivers}
  /\ DoSet(h, [objs EXCEPT ![o].LastLocation = loc, ![o].Expiration = exp], o)

Delete(h, id) ==
  LET r == DeleteResult(objs, drivers, locations, id)
  IN /\ drivers' = r.drivers
     /\ locations' = r.locations
     /\ objs' = Collect(objs, r.drivers, r.locations)
     /\ Record(h, Call("delete", id, r.err), Forget(upserted, r.drivers))
     /\ UNCHANGED <<lruSize, now>>

Get(h, id) ==
  LET r == GetResult(drivers, id)
  IN /\ Record(h, [Call("get", id, r.err) EXCEPT !.res = r.res], upserted)
     /\ UNCHANGED <<objs, drivers, locations, lruSize, now>>

NearestCall(h, pt, count) ==
  /\ Record(h, [Call("nearest", 0, "nil") EXCEPT
                  !.res = Nearest(locations, pt, count)], upserted)
  /\ UNCHANGED <<objs, drivers, locations, lruSize, now>>

\* DeleteExpired.  The clock has advanced to t when the call starts and may
\* advance to tEnd while the loop runs: the drivers under the keys in late
\* are tested at tEnd, the others at t
DeleteExpired(h, t, tEnd, late) ==
  LET at == [k \in DOMAIN drivers |-> IF k \in late THEN tEnd ELSE t]
      r == DeleteExpiredLoop(DOMAIN drivers, objs, drivers, locations, at)
  IN /\ t <= tEnd
     /\ drivers' = r.drivers
     /\ locations' = r.locations
     /\ objs' = Collect(objs, r.drivers, r.locations)
     /\ now' = tEnd
     /\ Record(h, [Call("sweep", 0, "nil") EXCEPT !.t = t],
               Forget(upserted, r.drivers))
     /\ UNCHANGED lruSize

Step(h) ==
  \/ \E id \in DriverIds, loc \in Positions, exp \in Expirations :
       SetFresh(h, id, loc, exp)
  \/ \E o \in Refs, loc \in Positions, exp \in Expirations :
       SetAgain(h, o, loc, exp)
  \/ \E id \in DriverIds : Delete(h, id)
  \/ \E id \in DriverIds : Get(h, id)
  \/ \E pt \in QueryPoints, count \in Counts : NearestCall(h, pt, count)
  \/ \E t \in now..MaxTime, tEnd \in now..MaxTime,
        late \in SUBSET DOMAIN drivers : DeleteExpired(h, t, tEnd, late)

\* One call after the other, each from Lock to Unlock in one step
Next == Step(FALSE) /\ UNCHANGED <<mu, pc>>

NextHist == Step(TRUE) /\ UNCHANGED <<mu, pc>>

\* The calls and their results
Spec == Init /\ [][Next]_vars

\* The same calls, with the positions upserted written down instead
SpecHist == Init /\ [][NextHist]_vars

\* A caller writes a position into a Driver value it holds: one it passed to
\* Set, which the map or the tree kept, or one Get or Nearest returned to it
CallerWrite(o, loc) ==
  /\ o \in Live(drivers, locations)
  /\ objs' = [objs EXCEPT ![o].LastLocation = loc]
  /\ last' = [Call("write", objs[o].ID, "nil") EXCEPT !.pt = loc]
  /\ UNCHANGED <<drivers, locations, lruSize, now, upserted>>

\* The calls about one id, and the callers' writes
StepAlias ==
  \/ \E loc \in Positions, exp \in Expirations : SetFresh(FALSE, 1, loc, exp)
  \/ \E o \in Pool(1), loc \in Positions, exp \in Expirations :
       SetAgain(FALSE, o, loc, exp)
  \/ Delete(FALSE, 1)
  \/ Get(FALSE, 1)
  \/ \E pt \in QueryPoints, count \in Counts : NearestCall(FALSE, pt, count)
  \/ \E t \in now..MaxTime, tEnd \in now..MaxTime,
        late \in SUBSET DOMAIN drivers : DeleteExpired(FALSE, t, tEnd, late)
  \/ \E o \in Pool(1), loc \in Positions : CallerWrite(o, loc)

NextAlias == StepAlias /\ UNCHANGED <<mu, pc>>

\* The calls, and between them the callers' writes to the Drivers they hold
SpecAlias == Init /\ [][NextAlias]_vars

\* ------------------------------------------------------------------ s.mu
\* Nearest taking the read lock, as Get does
ExclusiveButNearest(op) == op \notin {"get", "nearest"}

\* The methods that take s.mu.Lock(); Get takes s.mu.RLock()
Exclusive(op) == op # "get"

\* A method that returns an error without releasing the lock
AfterBodyLeaksOnError(err) == IF err = "nil" THEN "unlock" ELSE "idle"

\* defer s.mu.Unlock() / defer s.mu.RUnlock(): every way out of the body,
\* a return of any error and a panic included, runs the deferred call
AfterBody(err) == "unlock"

\* A caller calls a method: it is about to take the lock
Enter(c, op) ==
  /\ pc[c].at = "idle"
  /\ pc' = [pc EXCEPT ![c] = [at |-> "lock", op |-> op]]
  /\ UNCHANGED <<objs, drivers, locations, lruSize, now, upserted, last, mu>>

\* s.mu.Lock(): the caller takes the writers' mutex, which keeps later
\* readers out, and waits for the readers inside to leave
Lock(c) ==
  /\ pc[c].at = "lock" /\ Exclusive(pc[c].op)
  /\ mu.w = 0
  /\ mu' = [mu EXCEPT !.w = c]
  /\ pc' = [pc EXCEPT ![c].at = "drain"]
  /\ UNCHANGED <<objs, drivers, locations, lruSize, now, upserted, last>>

LockAcquired(c) ==
  /\ pc[c].at = "drain"
  /\ mu.readers = {}
  /\ pc' = [pc EXCEPT ![c].at = "body"]
  /\ UNCHANGED <<objs, drivers, locations, lruSize, now, upserted, last, mu>>

\* s.mu.RLock(): the caller goes in unless a writer holds or awaits the lock
RLock(c) ==
  /\ pc[c].at = "lock" /\ ~Exclusive(pc[c].op)
  /\ IF mu.w = 0
     THEN /\ mu' = [mu EXCEPT !.readers = @ \cup {c}]
          /\ pc' = [pc EXCEPT ![c].at = "body"]
     ELSE /\ pc' = [pc EXCEPT ![c].at = "rwait"]
          /\ UNCHANGED mu
  /\ UNCHANGED <<objs, drivers, locations, lruSize, now, upserted, last>>

\* The body of the method, run under the lock
Body(c) ==
  /\ pc[c].at = "body"
  /\ \/ /\ pc[c].op = "set"
        /\ \E exp \in Expirations : SetFresh(FALSE, 1, <<0, 0>>, exp)
     \/ /\ pc[c].op = "set"
        /\ \E o \in Pool(1), exp \in Expirations :
             SetAgain(FALSE, o, <<0, 0>>, exp)
     \/ pc[c].op = "delete" /\ Delete(FALSE, 1)
     \/ pc[c].op = "get" /\ Get(FALSE, 1)
     \/ pc[c].op = "nearest" /\ NearestCall(FALSE, <<0, 0>>, 1)
     \/ /\ pc[c].op = "sweep"
        /\ \E t \in now..MaxTime, tEnd \in now..MaxTime,
              late \in SUBSET DOMAIN drivers :
             DeleteExpired(FALSE, t, tEnd, late)
  /\ pc' = [pc EXCEPT ![c].at = AfterBody(last'.err)]
  /\ UNCHANGED mu

\* The deferred s.mu.Unlock(): the readers that waited go in, the writers'
\* mutex is free
Unlock(c) ==
  /\ pc[c].at = "unlock" /\ Exclusive(pc[c].op)
  /\ mu' = [w |-> 0, readers |-> {r \in Callers : pc[r].at = "rwait"}]
  /\ pc' = [r \in Callers |->
              IF r = c THEN [at |-> "idle", op |-> "none"]
              ELSE IF pc[r].at = "rwait" THEN [pc[r] EXCEPT !.at = "body"]
              ELSE pc[r]]
  /\ UNCHANGED <<objs, drivers, locations, lruSize, now, upserted, last>>

\* The deferred s.mu.RUnlock()
RUnlock(c) ==
  /\ pc[c].at = "unlock" /\ ~Exclusive(pc[c].op)
  /\ mu' = [mu EXCEPT !.readers = @ \ {c}]
  /\ pc' = [pc EXCEPT ![c] = [at |-> "idle", op |-> "none"]]
  /\ UNCHANGED <<objs, drivers, locations, lruSize, now, upserted, last>>

NextLock ==
  \E c \in Callers :
    \/ \E op \in Ops : Enter(c, op)
    \/ Lock(c)
    \/ LockAcquired(c)
    \/ RLock(c)
    \/ Body(c)
    \/ Unlock(c)
    \/ RUnlock(c)

\* Concurrent callers, each taking and releasing s.mu around the body
SpecLock == Init /\ [][NextLock]_vars

\* The same, scheduled fairly: a goroutine that can take a step takes one,
\* and sync.Mutex hands the lock to a waiter that keeps finding it taken
\* (starvation mode)
SpecLockFair ==
  /\ SpecLock
  /\ \A c \in Callers :
       /\ SF_vars(Lock(c))
       /\ WF_vars(LockAcquired(c))
       /\ WF_vars(RLock(c))
       /\ WF_vars(Body(c))
       /\ WF_vars(Unlock(c))
       /\ WF_vars(RUnlock(c))

\* -------------------------------------------------------------- Distance
\* Distance of storage.go, on the points whose coordinates are multiples of
\* 60 degrees.  There every intermediate value is a multiple of 1/16 or the
\* square root of one, and is computed exactly; float64 rounding is not
\* modelled.  Angles in radians are counted in units of Pi/6.
Lats == {-60, 0, 60}
Lons == {-180, -120, -60, 0, 60, 120, 180}

\* Earth radius in METERS
rEarth == 6378100

\* math.Sin: the sign and, in sixteenths, the square of the sine
Sin(theta) ==
  LET k == theta % 12
  IN [sgn |-> IF k \in 1..5 THEN 1 ELSE IF k \in 7..11 THEN -1 ELSE 0,
      sq |-> <<0, 4, 12, 16, 12, 4, 0, 4, 12, 16, 12, 4>>[k + 1]]

\* math.Cos at the multiples of Pi/3, in sixteenths
Cos(theta) == <<16, 8, -8, -16, -8, 8>>[((theta % 12) \div 2) + 1]

\* math.Pow(x, 2) of a square root, in sixteenths
Pow2(x) == x.sq

\* The product of two numbers given in sixteenths
Times(x, y) == (x * y) \div 16

\* math.Sqrt of a number of sixteenths
Sqrt(h) == [sgn |-> IF h = 0 THEN 0 ELSE 1, sq |-> h]

\* math.Asin, in hundredths of a radian; NaN for an argument over 1
Asin(x) ==
  IF x.sq > 16
  THEN [nan |-> TRUE, v |-> 0]
  ELSE [nan |-> FALSE,
        v |-> x.sgn * <<0, 25, 36, 45, 52, 59, 66, 72, 79, 85, 91, 98, 105,
                        112, 121, 132, 157>>[x.sq + 1]]

\* lat * math.Pi / 180
Radians(deg) == deg \div 30

\* hsin(theta) = math.Pow(math.Sin(theta/2), 2)
Hsin(theta) == Pow2(Sin(theta \div 2))

\* Distance with the cosine of the first latitude taken twice
DistanceOneCos(lat1, lon1, lat2, lon2) ==
  LET la1 == Radians(lat1)
      lo1 == Radians(lon1)
      la2 == Radians(lat2)
      lo2 == Radians(lon2)
      h == Hsin(la2 - la1) + Times(Times(Cos(la1), Cos(la1)), Hsin(lo2 - lo1))
      a == Asin(Sqrt(h))
  IN [nan |-> a.nan, v |-> 2 * rEarth * a.v]

\* Distance(lat1, lon1, lat2, lon2), in hundredths of a meter
Distance(lat1, lon1, lat2, lon2) ==
  LET la1 == Radians(lat1)
      lo1 == Radians(lon1)
      la2 == Radians(lat2)
      lo2 == Radians(lon2)
      h == Hsin(la2 - la1) + Times(Times(Cos(la1), Cos(la2)), Hsin(lo2 - lo1))
      a == Asin(Sqrt(h))
  IN [nan |-> a.nan, v |-> 2 * rEarth * a.v]

\* x == y on float64: a NaN equals nothing
FloatEq(x, y) == ~x.nan /\ ~y.nan /\ x.v = y.v

\* A caller computes the distance between two points
DistanceCall(lat1, lon1, lat2, lon2) ==
  /\ last' = [op |-> "distance", from |-> <<lat1, lon1>>, to |-> <<lat2, lon2>>,
              d |-> Distance(lat1, lon1, lat2, lon2)]
  /\ UNCHANGED <<objs, drivers, locations, lruSize, now, upserted, mu, pc>>

NextDistance ==
  \E lat1 \in Lats, lon1 \in Lons, lat2 \in Lats, lon2 \in Lons :
    DistanceCall(lat1, lon1, lat2, lon2)

\* The calls of Distance
SpecDistance == Init /\ [][NextDistance]_vars

\* ------------------------------------------------------------ properties
MapIds(drv) == DOMAIN drv

IndexIds(hp, tree) == {hp[tree[i].obj].ID : i \in 1..Len(tree)}

\* The Driver Get(id) returns
Got(hp, drv, id) == hp[GetResult(drv, id).res[1]]

\* The ids of the Drivers Nearest returns for some point and count
NearestIds(hp, tree) ==
  {hp[Nearest(tree, pt, k)[i]].ID :
     <<pt, k, i>> \in {x \in QueryPoints \X Counts \X (1..Len(tree)) :
                        x[3] <= Len(Nearest(tree, x[1], x[2]))}}

\* C1: in every state between calls, the ids in the map are the ids of the
\* Drivers in the tree
C1_Bijection == MapIds(drivers) = IndexIds(objs, locations)

C1_Witness ==
  /\ last.op = "delete" /\ last.err = "couldnotremove"
  /\ MapIds(drivers) = DriverIds

\* C2: Delete of an id the map holds returns no error and removes the id
\* from the map and from the tree; Delete fails only with NotFound
C2_DeletePresent ==
  [][(last'.op = "delete" /\ last'.id \in MapIds(drivers)) =>
       /\ last'.err = "nil"
       /\ last'.id \notin MapIds(drivers')
       /\ last'.id \notin IndexIds(objs', locations')]_vars

\* C3: right after a Set that returned no error, Get of its id succeeds and
\* returns a Driver with that id and with the position just set
C3_RoundTrip ==
  (last.op = "set" /\ last.err = "nil") =>
    /\ GetResult(drivers, last.id).err = "nil"
    /\ Got(objs, drivers, last.id).ID = last.id
    /\ Got(objs, drivers, last.id).LastLocation = last.pt

\* a Set of a new id, and a Set of an id already there with a new value
C3_Witness ==
  /\ last.op = "set" /\ last.err = "nil"
  /\ ~RtreeHas(locations, drivers[last.id])
  /\ \E id \in MapIds(drivers) : RtreeHas(locations, drivers[id])

\* C4: after a Delete that returned no error, Get of the id is NotFound and
\* Nearest returns no Driver with that id, until a Set of that id
C4_AfterDelete ==
  [][/\ (last'.op = "delete" /\ last'.err = "nil") =>
          /\ GetResult(drivers', last'.id).err = "notfound"
          /\ last'.id \notin NearestIds(objs', locations')
     /\ \A id \in DriverIds :
          (/\ GetResult(drivers, id).err = "notfound"
           /\ id \notin NearestIds(objs, locations)
           /\ \/ GetResult(drivers', id).err # "notfound"
              \/ id \in NearestIds(objs', locations'))
          => (last'.op = "set" /\ last'.id = id)]_vars

C4_Witness ==
  /\ last.op = "delete" /\ last.err = "nil"
  /\ locations # <<>>

\* C5: Delete and Get of an id the map does not hold return NotFound and
\* change neither the map, nor the tree, nor any Driver
C5_AbsentId ==
  [][(last'.op \in {"delete", "get"} /\ last'.id \notin MapIds(drivers)) =>
       /\ last'.err = "notfound"
       /\ UNCHANGED <<drivers, locations, objs>>]_vars

C5_Witness ==
  /\ last.op = "delete" /\ last.err = "notfound"
  /\ drivers # EmptyMap

\* C6: on a store with a positive lruSize, Set returns no error, does not
\* panic, and the Driver of its id has the position and expiration passed
C6_SetNeverFails ==
  (last.op = "set" /\ lruSize > 0) =>
    /\ last.err = "nil"
    /\ last.id \in MapIds(drivers)
    /\ Got(objs, drivers, last.id).LastLocation = last.pt
    /\ Got(objs, drivers, last.id).Expiration = last.exp

\* C7: when DeleteExpired returns, no Driver that was expired when the call
\* started is left in the map or in the tree
C7_SweepComplete ==
  [][last'.op = "sweep" =>
       \A id \in MapIds(drivers) :
         Expired(objs[drivers[id]], last'.t) =>
           /\ id \notin MapIds(drivers')
           /\ id \notin IndexIds(objs', locations')]_vars

\* C8: an id leaves the store only by a Delete of it that returns no error,
\* or by a DeleteExpired at a time past its nonzero Expiration
C8_NoPrematureEviction ==
  [][\A id \in DriverIds :
       (\/ id \in MapIds(drivers) /\ id \notin MapIds(drivers')
        \/ id \in IndexIds(objs, locations)
             /\ id \notin IndexIds(objs', locations'))
       => \/ last'.op = "delete" /\ last'.id = id /\ last'.err = "nil"
          \/ /\ last'.op = "sweep"
             /\ id \in MapIds(drivers)
             /\ objs[drivers[id]].Expiration # 0
             /\ now' > objs[drivers[id]].Expiration]_vars

\* a sweep past the clock reading 1 that leaves a Driver that never expires
C8_Witness ==
  /\ last.op = "sweep" /\ last.t > 1
  /\ \E id \in MapIds(drivers) : objs[drivers[id]].Expiration = 0
  /\ MapIds(drivers) # DriverIds

\* The distance the tree measures from pt to the entry holding Driver o
IndexDist(tree, pt, o) ==
  MinDist(pt, tree[CHOOSE i \in 1..Len(tree) : tree[i].obj = o].bb)

C10_HistoryBound ==
  \A id \in MapIds(drivers) :
    Len(upserted[id]) > lruSize =>
      Got(objs, drivers, id).Locations.items = Keep(upserted[id], lruSize)

\* The history cache of the Driver the map holds under id
CacheOf(hp, drv, id) == hp[drv[id]].Locations

\* C11: the Driver the map holds under an id carries a history cache from
\* its creation to its removal, always the same one, and no two ids carry
\* the same cache
C11_HistoryOwnership ==
  [][/\ \A id \in MapIds(drivers') :
          /\ CacheOf(objs', drivers', id) # NilCache
          /\ \A other \in MapIds(drivers') \ {id} :
               CacheOf(objs', drivers', other).serial
                 # CacheOf(objs', drivers', id).serial
     /\ \A id \in MapIds(drivers) \cap MapIds(drivers') :
          CacheOf(objs', drivers', id).serial
            = CacheOf(objs, drivers, id).serial]_vars

\* The entries of the tree that hold a Driver with this id
EntriesOf(hp, tree, id) == {i \in 1..Len(tree) : hp[tree[i].obj].ID = id}

\* C14: a Delete or a DeleteExpired that finds in the map a Driver the tree
\* fails to delete returns an error other than NotFound and leaves the map
\* entry in place
C14_InconsistencySurfaced ==
  [][/\ (/\ last'.op = "delete"
         /\ last'.id \in MapIds(drivers)
         /\ ~RtreeHas(locations, drivers[last'.id]))
        => /\ last'.err \notin {"nil", "notfound"}
           /\ last'.id \in MapIds(drivers')
     /\ \A id \in MapIds(drivers) :
          (/\ last'.op = "sweep"
           /\ Expired(objs[drivers[id]], last'.t)
           /\ ~RtreeHas(locations, drivers[id]))
          => /\ last'.err \notin {"nil", "notfound"}
             /\ id \in MapIds(drivers')]_vars

\* C15: a Set of an id the map holds leaves the tree as it is, with exactly
\* one entry for the id; a Set of a new id that returns no error appends
\* exactly one entry, for that id; nothing else adds an entry
C15_IndexMembership ==
  [][/\ (last'.op = "set" /\ last'.id \in MapIds(drivers))
        => /\ locations' = locations
           /\ Cardinality(EntriesOf(objs', locations', last'.id)) = 1
     /\ (last'.op = "set" /\ last'.id \notin MapIds(drivers)
           /\ last'.err = "nil")
        => /\ Len(locations') = Len(locations) + 1
           /\ SubSeq(locations', 1, Len(locations)) = locations
           /\ EntriesOf(objs', locations', last'.id) = {Len(locations')}
     /\ Len(locations') > Len(locations)
        => last'.op = "set" /\ last'.id \notin MapIds(drivers)]_vars

\* a Set of an id already there, with a new Driver value and a new position
C15_Witness ==
  /\ last.op = "set" /\ last.err = "nil"
  /\ Cardinality(EntriesOf(objs, locations, last.id)) = 1
  /\ ~RtreeHas(locations, drivers[last.id])
  /\ \E i \in EntriesOf(objs, locations, last.id) :
       locations[i].bb # Bounds(objs[drivers[last.id]])

\* C16: the Driver the tree holds for an id is the Driver the map holds for
\* it, so what Nearest returns has the position and the expiration of what
\* Get returns
C16_MapIndexAgree ==
  \A i \in 1..Len(locations) :
    LET o == locations[i].obj
    IN /\ objs[o].ID \in MapIds(drivers)
       /\ drivers[objs[o].ID] = o
       /\ objs[o].LastLocation = Got(objs, drivers, objs[o].ID).LastLocation
       /\ objs[o].Expiration = Got(objs, drivers, objs[o].ID).Expiration

\* C17: on a store with a non-positive lruSize every Set returns the error
\* of the cache's creation and the map and the tree stay empty
C17_FailedCreationAtomic ==
  [][(last'.op = "set" /\ lruSize <= 0)
       => /\ last'.err = "lru"
          /\ UNCHANGED <<drivers, locations>>
          /\ drivers' = EmptyMap
          /\ locations' = <<>>]_vars

C17_Witness ==
  /\ lruSize <= 0
  /\ last.op = "set" /\ last.err = "lru" /\ last.id = 2
  /\ drivers = EmptyMap /\ locations = <<>>

C13_NoLiveHandles ==
  [][/\ last'.op = "write"
        => /\ \A id \in MapIds(drivers) :
                Got(objs', drivers', id) = Got(objs, drivers, id)
           /\ \A i \in 1..Len(locations) :
                objs'[locations'[i].obj] = objs[locations[i].obj]
     /\ (last'.op = "set" /\ last'.err = "nil")
        => \A o \in Live(drivers, locations) \ {drivers'[last'.id]} :
             objs'[o] = objs[o]]_vars

\* The caller is between taking the lock and releasing it
Inside(c) == pc[c].at \in {"body", "unlock"}

\* C12: Set, Delete, Nearest and DeleteExpired run their bodies holding the
\* write lock and Get holding a read lock: two callers are inside at the
\* same time only if both are in Get
C12_LockDiscipline ==
  \A c \in Callers :
    Inside(c) =>
      /\ IF pc[c].op = "get"
         THEN c \in mu.readers
         ELSE mu.w = c /\ mu.readers = {}
      /\ \A d \in Callers \ {c} :
           Inside(d) => pc[c].op = "get" /\ pc[d].op = "get"

\* two Gets inside together
C12_Witness ==
  /\ pc[1] = [at |-> "body", op |-> "get"]
  /\ pc[2] = [at |-> "unlock", op |-> "get"]
  /\ mu.readers = {1, 2}

\* C18: a caller holds the lock only inside a method, whatever the method
\* returned, and every call that has started returns
C18_NoLockLeak ==
  /\ [](\A c \in Callers :
          (mu.w = c \/ c \in mu.readers)
            => pc[c].at \in {"drain", "body", "unlock"})
  /\ \A c \in Callers : (pc[c].at # "idle") ~> (pc[c].at = "idle")

\* a Delete that could not remove the Driver has returned, the lock is free
\* and the other caller waits for it
C18_Witness ==
  /\ last.op = "delete" /\ last.err = "couldnotremove"
  /\ pc[1].at = "idle"
  /\ mu = [w |-> 0, readers |-> {}]
  /\ pc[2] = [at |-> "lock", op |-> "set"]

====
